---------------------------- MODULE Spec2Model ----------------------------
(***************************************************************************)
(* A model of the platformer: Knight (movement, gravity, tile collision,   *)
(* world clamp), Camera (smoothed, clamped scroll) and Game.run (the       *)
(* frame loop).                                                            *)
(*                                                                         *)
(* Numbers.  rect.x, rect.y, tile edges and the camera's integer offset    *)
(* are integers, as in pygame.Rect.  vel_x is a Python float: it is kept   *)
(* in fixed point, Unit units per pixel, so 0.5, 0.85, 1.3, 7.5 and 12.75  *)
(* are exact and a product with 0.99 is cut to 1/Unit of a pixel.          *)
(* sprint_decel_ratio is kept in RUnit units per 1.0.  vel_y only ever     *)
(* takes integer values (0, -20, +1 steps, tile edge differences) and is   *)
(* kept in pixels.  pygame cuts a float handed to a Rect towards zero      *)
(* (Trunc).  The sprite animation (index, counter, image) does not feed    *)
(* back into position or velocity and is left out.                         *)
(***************************************************************************)
EXTENDS Integers, Sequences, FiniteSets

VARIABLES world, player, camera, borders, pc, running, last, ticks, afterQuit, atQuit

vars == <<world, player, camera, borders, pc, running, last, ticks, afterQuit, atQuit>>

----------------------------------------------------------------------------
(* Arithmetic helpers *)

Abs(v) == IF v < 0 THEN -v ELSE v

Min2(a, b) == IF a < b THEN a ELSE b

Max2(a, b) == IF a > b THEN a ELSE b

\* C's (int) cast of a quotient: towards zero
TruncDiv(a, b) == IF a >= 0 THEN a \div b ELSE -((-a) \div b)

\* fixed-point resolution of vel_x (units per pixel)
Unit == 10000

\* fixed-point resolution of sprint_decel_ratio (units per 1.0)
RUnit == 10000

\* floor(a * b / c) for a >= 0, computed without leaving 32 bits
MulDiv(a, b, c) == (a \div c) * b + ((a % c) * b) \div c

\* a float pixel coordinate handed to pygame.Rect: cut towards zero
Trunc(v) == TruncDiv(v, Unit)

----------------------------------------------------------------------------
(* Knight: constants of _handle_movement / _move_x / _apply_gravity *)

\* key[pygame.K_a], K_d, K_LSHIFT, K_SPACE: the set of keys held
Keys == {"a", "d", "shift", "space"}

\* increment=0.5
increment == 5000

\* max_vel_x=7.5
max_vel_x == 75000

\* sprint_inc_mod = sprint_max_mod = 1.7
SprintMod(v) == (v * 17) \div 10

\* amount=1.3
amount == 13000

\* decel_factor = 0.99
DecelFactor(v) == TruncDiv(v * 99, 100)

terminal_velocity == 30

gravity == 1

\* self.vel_y = -20
JumpVel == -20

\* size (14, 19) scaled by 3.5 and cut to whole pixels: the rect is 49 x 66
PlayerW == 49

PlayerH == 66

\* hasattr(self, 'sprint_decel_ratio') is false
NoRatio == -1

\* Knight.__init__ at (x, y)
NewKnight(x, y) ==
  [x |-> x, y |-> y, vel_x |-> 0, vel_y |-> 0, sprinting |-> FALSE,
   jumped |-> FALSE, flipped |-> FALSE, was_sprinting_when_jumped |-> FALSE,
   sprint_decel_ratio |-> NoRatio]

----------------------------------------------------------------------------
(* Knight._move_x *)

\* abs(self.vel_x) / (max_vel_x * sprint_max_mod)
CaptureRatio(v) == MulDiv(Abs(v), RUnit, SprintMod(max_vel_x))

\* current_target = max_vel_x * self.sprint_decel_ratio
CurrentTarget(r) == MulDiv(r, max_vel_x, RUnit)

\* if abs(self.vel_x) > current_target
ExceedsTargetMutant(v, r) == Abs(v) >= CurrentTarget(r)

ExceedsTarget(v, r) == Abs(v) > CurrentTarget(r)

\* the ratio after line 100: stored when sprint was just released on the ground
RatioAfterRelease(p, key) ==
  IF ~p.jumped /\ p.sprinting /\ ~("shift" \in key)
  THEN CaptureRatio(p.vel_x)
  ELSE p.sprint_decel_ratio

MoveX(p, key) ==
  LET sprinting == "shift" \in key
      r0 == RatioAfterRelease(p, key)
      decel == ~p.jumped /\ ~sprinting /\ r0 # NoRatio
      exceeds == decel /\ ExceedsTarget(p.vel_x, r0)
      v1 == IF exceeds THEN DecelFactor(p.vel_x) ELSE p.vel_x
      r1 == IF decel
            THEN (IF exceeds THEN DecelFactor(r0) ELSE NoRatio)
            ELSE r0
      boosted == IF ~p.jumped THEN sprinting ELSE p.was_sprinting_when_jumped
      maxv == IF boosted THEN SprintMod(max_vel_x) ELSE max_vel_x
      inc == IF boosted THEN SprintMod(increment) ELSE increment
      scaled == ~sprinting /\ r1 # NoRatio /\ ~p.jumped
      target == IF scaled THEN MulDiv(r1, maxv, RUnit) ELSE maxv
      v2 == IF "a" \in key THEN Max2(-target, v1 - inc) ELSE v1
      v3 == IF "d" \in key THEN Min2(target, v2 + inc) ELSE v2
  IN [p EXCEPT !.sprinting = sprinting,
               !.vel_x = v3,
               !.sprint_decel_ratio = r1,
               !.flipped = IF "d" \in key THEN FALSE
                           ELSE IF "a" \in key THEN TRUE ELSE @,
               !.was_sprinting_when_jumped =
                   IF "space" \in key /\ ~p.jumped THEN sprinting ELSE @]

(* Knight._apply_friction *)
FrictionMutant(v) == v - amount

Friction(v) ==
  IF v > 0 THEN Max2(0, v - amount)
  ELSE IF v < 0 THEN Min2(0, v + amount)
  ELSE v

ApplyFriction(p, key) ==
  IF ~("a" \in key \/ "d" \in key)
  THEN [p EXCEPT !.vel_x = Friction(@)]
  ELSE p

(* Knight._handle_movement *)
HandleMovement(p, key) ==
  LET m == MoveX(p, key)
      f == IF ~m.jumped THEN ApplyFriction(m, key) ELSE m
  IN IF "space" \in key /\ ~f.jumped
     THEN [f EXCEPT !.vel_y = JumpVel, !.jumped = TRUE]
     ELSE f

(* Knight._apply_gravity *)
GravityMutant(vy) == vy

Gravity(vy) == IF vy < terminal_velocity THEN vy + gravity ELSE vy

ApplyGravity(p) == [p EXCEPT !.vel_y = Gravity(@)]

----------------------------------------------------------------------------
(* Tiles and collision *)

\* pygame.Rect.colliderect of a tile with the rect (x, y, w, h)
colliderect(tile, x, y, w, h) ==
  /\ tile.left < x + w
  /\ x < tile.left + tile.width
  /\ tile.top < y + h
  /\ y < tile.top + tile.height

\* one iteration of the loop of _handle_collisions
CollideTile(p, tile) ==
  LET hitx == colliderect(tile, Trunc(p.x * Unit + p.vel_x), p.y, PlayerW, PlayerH)
      hity == colliderect(tile, p.x, p.y + p.vel_y, PlayerW, PlayerH)
      vx == IF hitx /\ p.vel_x > 0 THEN (tile.left - (p.x + PlayerW)) * Unit
            ELSE IF hitx /\ p.vel_x < 0 THEN (tile.left + tile.width - p.x) * Unit
            ELSE p.vel_x
      vy == IF hity /\ p.vel_y > 0 THEN tile.top - (p.y + PlayerH)
            ELSE IF hity /\ p.vel_y < 0 THEN tile.top + tile.height - p.y
            ELSE p.vel_y
  IN [p EXCEPT !.vel_x = vx, !.vel_y = vy,
               !.jumped = IF hity /\ p.vel_y > 0 THEN FALSE ELSE @]

\* the loop from tile i on; q is the Knight after tile i, evaluated once
RECURSIVE CollideFrom(_, _, _)
CollideFrom(p, tiles, i) ==
  IF i > Len(tiles) THEN p
  ELSE CHOOSE r \in { CollideFrom(q, tiles, i + 1) : q \in {CollideTile(p, tiles[i])} } : TRUE

(* Knight._handle_collisions *)
HandleCollisions(p, tiles) == CollideFrom(p, tiles, 1)

(* Knight._clamp_position *)
ClampXMutant(v, limit) == Min2(v, (limit - PlayerW) * Unit)

ClampX(v, limit) == Max2(0, Min2(v, (limit - PlayerW) * Unit))

ClampPosition(p, limit) ==
  [p EXCEPT !.x = Trunc(ClampX(p.x * Unit + p.vel_x, limit)),
            !.y = p.y + p.vel_y]

(* Knight.update, without the animation and the blit *)
\* (g: after _apply_gravity, c: after _handle_collisions, each evaluated once)
KnightUpdate(p, key, tiles, limit) ==
  CHOOSE r \in { ClampPosition(c, limit) :
                   c \in { HandleCollisions(g, tiles) :
                             g \in { ApplyGravity(HandleMovement(p, key)) } } } : TRUE

\* what the last Knight.update went through
TickRecord(p, key, tiles) ==
  CHOOSE r \in { [key |-> key, before |-> p, moved |-> m,
                  resolved |-> HandleCollisions(ApplyGravity(m), tiles)] :
                   m \in { HandleMovement(p, key) } } : TRUE

----------------------------------------------------------------------------
(* World: the tile list and the world size Game derives from the tile grid *)

\* self.tile_size = 50
tile_size == 50

\* the rectangle of the tile in grid cell (c, r)
TileRect(c, r) ==
  [left |-> c * tile_size, top |-> r * tile_size,
   width |-> tile_size, height |-> tile_size]

\* world.rects of a grid of cols x rows cells with tiles in `cells`, and
\* world_limit_x / world_limit_y
MakeWorld(cells, cols, rows) ==
  [tiles |-> [i \in 1..Len(cells) |-> TileRect(cells[i][1], cells[i][2])],
   limit_x |-> cols * tile_size,
   limit_y |-> rows * tile_size]

\* does the player's rect at (x, y) overlap a tile of the list
Overlaps(tiles, x, y) ==
  \E i \in 1..Len(tiles) : colliderect(tiles[i], x, y, PlayerW, PlayerH)

\* is the player's rect at (x, y) standing on a tile: some tile's top edge is
\* at the rect's bottom edge, under it
Supported(tiles, x, y) ==
  \E i \in 1..Len(tiles) :
     /\ tiles[i].top = y + PlayerH
     /\ tiles[i].left < x + PlayerW
     /\ x < tiles[i].left + tiles[i].width

----------------------------------------------------------------------------
(* Camera *)

\* pygame.display.set_mode((900, 700))
screen_width == 900

screen_height == 700

\* fixed-point resolution of the camera's float vectors (units per pixel)
CUnit == 100

\* Camera.__init__
NewCamera(p) ==
  [offset_x |-> 0, offset_y |-> 0,
   offset_float_x |-> 0, offset_float_y |-> 0,
   CONST_x |-> (p.x * CUnit) \div 4 - (screen_width * CUnit) \div 2,
   CONST_y |-> -(p.y * CUnit)]

\* offset_float += (target - offset_float) * 0.1
Lerp(f, target) == f + TruncDiv(target - f, 10)

\* lines 45-46 and 47-48: max with the low border, then min with the high one
ClampOffsetMutant(v, lo, hi) == Max2(lo, Min2(v, hi))

ClampOffset(v, lo, hi) == Min2(Max2(lo, v), hi)

\* Camera.scroll(left_border, right_border, top_border, bottom_border)
Scroll(c, p, b) ==
  LET fx == Lerp(c.offset_float_x, p.x * CUnit + c.CONST_x)
      fy == Lerp(c.offset_float_y, p.y * CUnit + c.CONST_y)
  IN [c EXCEPT !.offset_float_x = fx,
               !.offset_float_y = fy,
               !.offset_x = ClampOffset(TruncDiv(fx, CUnit), b.left, b.right - screen_width),
               !.offset_y = ClampOffset(TruncDiv(fy, CUnit), b.top, b.bottom - screen_height)]

\* the borders Game._update passes to Camera.scroll
GameBorders(w) == [left |-> 0, right |-> w.limit_x, top |-> 0, bottom |-> w.limit_y]

----------------------------------------------------------------------------
(* Bounds of the model *)

\* Knight.update calls explored with every key combination
MaxTicks == 4

\* frames of Game.run explored
MaxFrames == 2

\* Knight.update calls explored with the right and sprint keys only
MaxWalkTicks == 17

\* Camera.scroll calls explored
MaxScrolls == 2

----------------------------------------------------------------------------
(* Game.run *)

\* Knight(450, ...)
spawn_x == 450

\* self.screen.get_height() - 230
spawn_y == screen_height - 230

\* a world of 20 x 15 cells: a floor under the spawn and a block beside it
GameWorld == MakeWorld(<<<<8, 11>>, <<9, 11>>, <<10, 11>>, <<11, 10>>>>, 20, 15)

GameInit ==
  /\ world = GameWorld
  /\ player = NewKnight(spawn_x, spawn_y)
  /\ camera = NewCamera(player)
  /\ borders = GameBorders(world)
  /\ pc = "events"
  /\ running = TRUE
  /\ last = TickRecord(player, {}, world.tiles)
  /\ ticks = 0
  /\ afterQuit = 0
  /\ atQuit = <<player, camera>>

\* running = self._handle_events(): False when the event queue holds a QUIT
HandleEvents ==
  /\ pc = "events"
  /\ ticks < MaxFrames
  /\ \E quit \in BOOLEAN :
       /\ running' = ~quit
       /\ atQuit' = IF quit THEN <<player, camera>> ELSE atQuit
  /\ pc' = "update"
  /\ UNCHANGED <<world, player, camera, borders, last, ticks, afterQuit>>

\* self._update(): world.display, player.update, camera.scroll
Update ==
  /\ pc = "update"
  /\ \E key \in SUBSET Keys :
       /\ player' = KnightUpdate(player, key, world.tiles, world.limit_x)
       /\ last' = TickRecord(player, key, world.tiles)
  /\ borders' = GameBorders(world)
  /\ camera' = Scroll(camera, player', borders')
  /\ ticks' = ticks + 1
  /\ afterQuit' = IF running THEN afterQuit ELSE afterQuit + 1
  /\ pc' = "present"
  /\ UNCHANGED <<world, running, atQuit>>

\* where the loop goes after a frame: `while running`, then pygame.quit()
LoopTargetMutant(r) == "events"

LoopTarget(r) == IF r THEN "events" ELSE "done"

\* _render, _monitor_performance, display.update, clock.tick, loop test
Present ==
  /\ pc = "present"
  /\ pc' = LoopTarget(running)
  /\ UNCHANGED <<world, player, camera, borders, running, last, ticks, afterQuit, atQuit>>

Next == HandleEvents \/ Update \/ Present

Spec == GameInit /\ [][Next]_vars

\* the loop is one thread that never blocks: a frame that has begun completes
FairSpec == Spec /\ WF_vars(Update) /\ WF_vars(Present)

----------------------------------------------------------------------------
(* Knight.update on its own, from a freshly constructed Knight *)

\* a world of 3 x 3 cells: a platform of two tiles, with and without a wall on it
KnightWorlds ==
  { MakeWorld(<<<<0, 1>>, <<0, 2>>, <<1, 2>>>>, 3, 3),
    MakeWorld(<<<<0, 2>>, <<1, 2>>>>, 3, 3) }

\* the rect's y when it stands on the platform
PlatformY == 2 * tile_size - PlayerH

\* start positions: beside the platform's top right corner, on the platform
\* one pixel from the wall, and on the platform one pixel from the world's edge
KnightStarts ==
  { <<2 * tile_size, PlatformY>>, <<tile_size + 1, PlatformY>>, <<1, PlatformY>> }

KnightInit ==
  /\ world \in KnightWorlds
  /\ \E s \in KnightStarts :
       /\ ~Overlaps(world.tiles, s[1], s[2])
       /\ player = NewKnight(s[1], s[2])
  /\ camera = NewCamera(player)
  /\ borders = GameBorders(world)
  /\ pc = "update"
  /\ running = TRUE
  /\ last = TickRecord(player, {}, world.tiles)
  /\ ticks = 0
  /\ afterQuit = 0
  /\ atQuit = <<player, camera>>

\* one Knight.update with the keys held in `key`
Tick(key) ==
  /\ player' = KnightUpdate(player, key, world.tiles, world.limit_x)
  /\ last' = TickRecord(player, key, world.tiles)
  /\ ticks' = ticks + 1
  /\ UNCHANGED <<world, camera, borders, pc, running, afterQuit, atQuit>>

KnightTick ==
  /\ ticks < MaxTicks
  /\ \E key \in SUBSET Keys : Tick(key)

SpecKnight == KnightInit /\ [][KnightTick]_vars

----------------------------------------------------------------------------
(* Knight.update with only the right and sprint keys, on a floor that ends *)

\* a floor of three tiles in a world of 8 x 4 cells
WalkWorld == MakeWorld(<<<<0, 2>>, <<1, 2>>, <<2, 2>>>>, 8, 4)

\* on the floor: at its left end, and with one pixel left on its right end
WalkStarts == { <<1, PlatformY>>, <<3 * tile_size - 1, PlatformY>> }

\* right held, with or without sprint
WalkKeys == { {"d", "shift"}, {"d"} }

WalkInit ==
  /\ world = WalkWorld
  /\ \E s \in WalkStarts : player = NewKnight(s[1], s[2])
  /\ camera = NewCamera(player)
  /\ borders = GameBorders(world)
  /\ pc = "update"
  /\ running = TRUE
  /\ last = TickRecord(player, {}, world.tiles)
  /\ ticks = 0
  /\ afterQuit = 0
  /\ atQuit = <<player, camera>>

WalkTick ==
  /\ ticks < MaxWalkTicks
  /\ \E key \in WalkKeys : Tick(key)

SpecWalk == WalkInit /\ [][WalkTick]_vars

----------------------------------------------------------------------------
(* Camera.scroll on its own, with any borders and any player position *)

CamPositions == {0, spawn_x, 2 * screen_width} \X {0, spawn_y}

CamBorders ==
  [left : {0, tile_size}, right : {screen_width - tile_size, screen_width + 2 * tile_size},
   top : {0}, bottom : {screen_height - tile_size, screen_height + tile_size}]

CamInit ==
  /\ world = GameWorld
  /\ player = NewKnight(spawn_x, spawn_y)
  /\ camera = NewCamera(player)
  /\ borders = GameBorders(world)
  /\ pc = "update"
  /\ running = TRUE
  /\ last = TickRecord(player, {}, world.tiles)
  /\ ticks = 0
  /\ afterQuit = 0
  /\ atQuit = <<player, camera>>

\* the player stands somewhere and Camera.scroll is called with borders b
CamScroll ==
  /\ ticks < MaxScrolls
  /\ \E pos \in CamPositions, b \in CamBorders :
       /\ player' = [player EXCEPT !.x = pos[1], !.y = pos[2]]
       /\ borders' = b
       /\ camera' = Scroll(camera, player', b)
  /\ ticks' = ticks + 1
  /\ UNCHANGED <<world, pc, running, last, afterQuit, atQuit>>

SpecCam == CamInit /\ [][CamScroll]_vars

----------------------------------------------------------------------------
(* Properties.  `last` holds the last Knight.update: the keys, the Knight  *)
(* before it, after _handle_movement (moved) and after _handle_collisions  *)
(* (resolved); `player` is the Knight after _clamp_position.               *)

\* neither the left nor the right key is held
NoMoveKey(key) == ~("a" \in key \/ "d" \in key)

\* no tile is hit by the vertical test of the last tick
NoVerticalHit ==
  \A i \in 1..Len(world.tiles) :
     ~colliderect(world.tiles[i], last.before.x,
                  last.before.y + Gravity(last.moved.vel_y), PlayerW, PlayerH)

\* C1: after a tick the player's rect overlaps no tile (from a start that
\* overlaps none).
C1_NoOverlap == ~Overlaps(world.tiles, player.x, player.y)

\* C2: after every tick 0 <= rect.x <= world_limit - rect.width.
C2_XInWorld == 0 <= player.x /\ player.x <= world.limit_x - PlayerW

\* a tick whose movement would have left the world on the left was clamped to 0
C2_Witness ==
  /\ ticks > 0
  /\ last.resolved.x * Unit + last.resolved.vel_x < 0
  /\ player.x = 0

\* C3 as stated: after every scroll, left <= offset.x <= right - screen_width
\* and top <= offset.y <= bottom - screen_height, for every borders.
C3_Original ==
  ticks > 0 =>
    /\ borders.left <= camera.offset_x
    /\ camera.offset_x <= borders.right - screen_width
    /\ borders.top <= camera.offset_y
    /\ camera.offset_y <= borders.bottom - screen_height

\* C3 amended: after every scroll the offset is at most right - screen_width
\* and bottom - screen_height; it is at least left (top) whenever the range
\* is not empty, that is left <= right - screen_width (top <= bottom -
\* screen_height).
C3_Amended ==
  ticks > 0 =>
    /\ camera.offset_x <= borders.right - screen_width
    /\ camera.offset_y <= borders.bottom - screen_height
    /\ (borders.left <= borders.right - screen_width => borders.left <= camera.offset_x)
    /\ (borders.top <= borders.bottom - screen_height => borders.top <= camera.offset_y)

\* a scroll with borders narrower than the screen: the offset is the upper bound,
\* below the left border
C3_Witness ==
  /\ ticks > 0
  /\ borders.right - screen_width < borders.left
  /\ camera.offset_x = borders.right - screen_width

\* a tick with no left/right key that started with jumped False
FrictionTick == ticks > 0 /\ NoMoveKey(last.key) /\ ~last.before.jumped

\* C4 as stated: in such a tick |vel_x| does not grow, changes by at most 1.3
\* and keeps its sign, over the whole tick.
C4_Original ==
  FrictionTick =>
    /\ Abs(player.vel_x) <= Abs(last.before.vel_x)
    /\ Abs(last.before.vel_x - player.vel_x) <= amount
    /\ (last.before.vel_x >= 0 => player.vel_x >= 0)
    /\ (last.before.vel_x <= 0 => player.vel_x <= 0)

\* C4 amended: in such a tick _handle_movement moves vel_x towards 0 without
\* changing its sign, by at most 1.3 plus 1% of |vel_x| (the deceleration
\* window's factor 0.99 is applied before the friction), to within one unit
\* of the arithmetic's resolution.
C4_Amended ==
  FrictionTick =>
    /\ Abs(last.moved.vel_x) <= Abs(last.before.vel_x)
    /\ 100 * (Abs(last.before.vel_x) - Abs(last.moved.vel_x))
          <= 100 * amount + Abs(last.before.vel_x) + 100
    /\ (last.before.vel_x >= 0 => last.moved.vel_x >= 0)
    /\ (last.before.vel_x <= 0 => last.moved.vel_x <= 0)

\* such a tick in which _handle_movement took more than 1.3 off |vel_x|
C4_Witness ==
  /\ FrictionTick
  /\ Abs(last.before.vel_x) - Abs(last.moved.vel_x) > amount

\* the last tick began with the ratio set
RatioWasSet == ticks > 0 /\ last.before.sprint_decel_ratio # NoRatio

\* the last tick released sprint on the ground (the ratio is stored anew)
ReleaseTick == ~last.before.jumped /\ last.before.sprinting /\ ~("shift" \in last.key)

\* the last tick was on the ground without the sprint key
GroundedNoSprint == ~last.before.jumped /\ ~("shift" \in last.key)

\* the bound |vel_x| <= max_vel_x * ratio at the start of the last tick
BoundHeld ==
  Abs(last.before.vel_x) <= CurrentTarget(last.before.sprint_decel_ratio)

\* C5 as stated: once the ratio is set the target never increases, and the
\* ratio is cleared exactly when |vel_x| <= max_vel_x * ratio: gone at the
\* end of every tick in which the bound held (airborne or sprinting ticks
\* included), and never cleared while |vel_x| exceeds the bound.
C5_Original ==
  RatioWasSet =>
    /\ (player.sprint_decel_ratio # NoRatio =>
          CurrentTarget(player.sprint_decel_ratio)
             <= CurrentTarget(last.before.sprint_decel_ratio))
    /\ (BoundHeld => player.sprint_decel_ratio = NoRatio)
    /\ (player.sprint_decel_ratio = NoRatio => BoundHeld)

\* C5 amended: once set, the ratio (and the target) never increases except in
\* a tick that releases sprint on the ground again, which stores a new ratio;
\* in a tick with jumped True or the sprint key held the ratio is kept as it
\* is; in a grounded tick without sprint that is not a release it is cleared
\* exactly when |vel_x| at the start of the tick is <= max_vel_x * ratio;
\* and it is never cleared while |vel_x| exceeds that bound.
C5_Amended ==
  RatioWasSet =>
    /\ (~ReleaseTick /\ player.sprint_decel_ratio # NoRatio =>
          /\ player.sprint_decel_ratio <= last.before.sprint_decel_ratio
          /\ CurrentTarget(player.sprint_decel_ratio)
               <= CurrentTarget(last.before.sprint_decel_ratio))
    /\ (~GroundedNoSprint =>
          player.sprint_decel_ratio = last.before.sprint_decel_ratio)
    /\ (GroundedNoSprint /\ ~ReleaseTick =>
          (player.sprint_decel_ratio = NoRatio <=> BoundHeld))
    /\ (player.sprint_decel_ratio = NoRatio => BoundHeld)

\* a tick that cleared the ratio
C5_Witness == RatioWasSet /\ player.sprint_decel_ratio = NoRatio

\* the last tick pressed jump with jumped False and hit no tile vertically
JumpTick ==
  ticks > 0 /\ "space" \in last.key /\ ~last.before.jumped /\ NoVerticalHit

\* the last tick began rising at the speed a jump tick leaves, and hit no tile
AfterJumpTick ==
  /\ ticks > 0
  /\ last.before.jumped
  /\ last.before.vel_y = JumpVel + gravity
  /\ NoVerticalHit

\* C6 as stated: the jump tick ends with vel_y = -20 and the player 20 pixels
\* higher; the next tick ends with vel_y = -19 and the player 19 higher.
C6_Original ==
  /\ (JumpTick =>
        /\ player.jumped
        /\ player.vel_y = JumpVel
        /\ player.y = last.before.y + JumpVel)
  /\ (AfterJumpTick => player.vel_y = JumpVel + gravity)

\* C6 amended: gravity is applied in the jump tick too. With no tile hit
\* vertically, the jump tick ends with jumped True, vel_y = -19 and the player
\* 19 pixels higher; the tick after it ends with vel_y = -18 and the player
\* 18 pixels higher.
C6_Amended ==
  /\ (JumpTick =>
        /\ player.jumped
        /\ player.vel_y = JumpVel + gravity
        /\ player.y = last.before.y + JumpVel + gravity)
  /\ (AfterJumpTick =>
        /\ player.vel_y = JumpVel + 2 * gravity
        /\ player.y = last.before.y + JumpVel + 2 * gravity)

\* the tick after a jump tick has run
C6_Witness == AfterJumpTick /\ player.jumped /\ player.y < last.before.y

\* C7: from sprint-max speed on the ground, with right held and sprint
\* released, vel_x comes down gradually: in the release tick and in every
\* following tick while vel_x is above the base max speed, the ratio stays
\* set and vel_x loses no more than 1% (to within one unit of resolution).
C7_GradualDecel ==
  ( /\ ticks > 0
    /\ last.key = {"d"}
    /\ ~last.before.jumped
    /\ \/ last.before.sprinting /\ last.before.vel_x = SprintMod(max_vel_x)
       \/ /\ ~last.before.sprinting
          /\ last.before.sprint_decel_ratio # NoRatio
          /\ last.before.vel_x > max_vel_x )
  => /\ player.sprint_decel_ratio # NoRatio
     /\ 100 * player.vel_x >= 99 * last.before.vel_x - 100

\* C8: at the end of every tick |vel_x| <= 12.75 and -20 <= vel_y <= 30.
C8_VelocityBounds ==
  /\ Abs(player.vel_x) <= SprintMod(max_vel_x)
  /\ JumpVel <= player.vel_y
  /\ player.vel_y <= terminal_velocity

\* C9 as stated: once a QUIT is observed no further update runs, so player
\* and camera are as they were when it was observed.
C9_Original == ~running => (afterQuit = 0 /\ <<player, camera>> = atQuit)

\* C9 amended: once _handle_events observes a QUIT, the rest of that frame
\* still runs, so exactly one more update (world render, Knight.update,
\* Camera.scroll) happens; then the loop exits, and it always does.
C9_Amended ==
  /\ [](~running => afterQuit <= 1)
  /\ [](pc = "done" => (~running /\ afterQuit = 1))
  /\ (~running ~> pc = "done")

\* the loop has exited, after an update that followed the QUIT and moved the player
C9_Witness == pc = "done" /\ afterQuit = 1 /\ <<player, camera>> # atQuit

\* C10: whenever jumped is False at the start of a tick, the player's rect
\* rests on a tile.
C10_GroundedIsSupported ==
  ~player.jumped => Supported(world.tiles, player.x, player.y)

============================================================================
